---- MODULE Spec2Model ----
(***************************************************************************)
(* Deep k-Nearest-Neighbors engine (class DkNN of run_dknn.py).            *)
(*                                                                         *)
(* The state is the instance's fields (tree_list, label_list, act_list,    *)
(* _A, lsh, n_dknn_layers) plus the outcome of the last call (ret).  Each  *)
(* public method is one action.  Python's None is the empty tuple and a    *)
(* set field is a 1-tuple holding its value.  Positions in the training    *)
(* data are 1-based here (0-based in Python).  Proportions are exact       *)
(* fractions <<numerator, denominator>> in lowest terms: the counts never  *)
(* exceed the neighbour count, so distinct fractions are distinct floats   *)
(* and the float comparisons of the code order them as the rationals do.   *)
(***************************************************************************)
EXTENDS Integers, Sequences, FiniteSets, TLC

VARIABLES tree_list, label_list, act_list, A, lsh, train, complete, ret

vars == <<tree_list, label_list, act_list, A, lsh, train, complete, ret>>

(* ------------------------------ bounds -------------------------------- *)
\* model.n_dknn_layers of the model under test
NumLayers == 2
\* inputs are 0..MaxX
MaxX == 2
\* class labels are 0..MaxLabel
MaxLabel == 1
\* training inputs are 0..MaxTrainX
MaxTrainX == 1
\* longest training set handed to build
MaxTrain == 3
\* longest held-out set handed to calibrate
MaxCalib == 2
\* largest batch_size of build and calibrate
MaxBatch == 2
\* longest batch handed to a query or prediction call
MaxQuery == 1
\* neighbours asked of the exact index (k=75 in the code, scaled down)
K == 2
\* neighbours kept by the approximate index (nearpy's default filter, scaled)
LshK == 2
\* projections the hash index draws from: 1..MaxProj
MaxProj == 1
\* longest vote list of the scoring specification
MaxVotes == 8

(* --------------------------- Python values ---------------------------- *)
None == <<>>
Some(v) == <<v>>
Val(o) == o[1]

Inputs == 0..MaxX
Labels == 0..MaxLabel
Examples == Inputs \X Labels
\* the labelled examples a training set is drawn from
TrainExamples == {<<x, x % (MaxLabel + 1)>> : x \in 0..MaxTrainX}

RECURSIVE SeqsUpTo(_, _)
\* all sequences over S of length 0..n
SeqsUpTo(S, n) ==
  IF n = 0 THEN {<<>>}
  ELSE LET shorter == SeqsUpTo(S, n - 1)
       IN shorter \cup {Append(s, e) : s \in {t \in shorter : Len(t) = n - 1}, e \in S}

Range(s) == {s[i] : i \in DOMAIN s}

RECURSIVE GCD(_, _)
GCD(a, b) == IF b = 0 THEN a ELSE GCD(b, a % b)

\* n / d of Python 3 (true division), d > 0
Frac(n, d) == LET g == GCD(n, d) IN <<n \div g, d \div g>>
FracLess(a, b) == a[1] * b[2] < b[1] * a[2]
FracGeq(a, b) == ~FracLess(a, b)
FracLeq(a, b) == a[1] * b[2] <= b[1] * a[2]
\* 1 + p in place of 1 - p
OnePlus(p) == Frac(p[2] + p[1], p[2])

\* 1 - p
OneMinus(p) == Frac(p[2] - p[1], p[2])
Zero == Frac(0, 1)
One == Frac(1, 1)
InUnit(p) == FracLeq(Zero, p) /\ FracLeq(p, One)

(* ------------------------- model collaborator ------------------------- *)
\* dknn_layers[l] of model.predict for input x: one activation per layer
Hidden(l, x) == (x * l) % (MaxX + 1)
\* argmax and max of the softmax output of model.predict for input x
RegPred(x) == x % (MaxLabel + 1)
RegConf(x) == Frac(x + 2, x + 3)

(* ------------------------ collections.Counter ------------------------- *)
Count(v, c) == Cardinality({i \in DOMAIN v : v[i] = c})
FirstIdx(v, c) == CHOOSE i \in DOMAIN v : v[i] = c /\ \A j \in 1..(i - 1) : v[j] # c

RECURSIVE LeastCommonOf(_, _)
\* the remaining labels by ascending count
LeastCommonOf(v, rest) ==
  IF rest = {} THEN <<>>
  ELSE LET best == CHOOSE c \in rest : \A d \in rest \ {c} :
                     \/ Count(v, c) < Count(v, d)
                     \/ Count(v, c) = Count(v, d) /\ FirstIdx(v, c) < FirstIdx(v, d)
       IN <<<<best, Count(v, best)>>>> \o LeastCommonOf(v, rest \ {best})

RECURSIVE MostCommonOf(_, _)
\* the remaining labels by descending count, equal counts in first-seen order
MostCommonOf(v, rest) ==
  IF rest = {} THEN <<>>
  ELSE LET best == CHOOSE c \in rest : \A d \in rest \ {c} :
                     \/ Count(v, c) > Count(v, d)
                     \/ Count(v, c) = Count(v, d) /\ FirstIdx(v, c) < FirstIdx(v, d)
       IN <<<<best, Count(v, best)>>>> \o MostCommonOf(v, rest \ {best})

\* Counter(v).most_common()
MostCommon(v) == MostCommonOf(v, Range(v))

(* --------------------------- SerialIterator --------------------------- *)
Min(a, b) == IF a < b THEN a ELSE b

RECURSIVE FullBatchesFrom(_, _, _)
\* len(data) // batch_size batches: a short last batch is dropped
FullBatchesFrom(s, bs, i) ==
  IF i + bs - 1 > Len(s) THEN <<>>
  ELSE <<SubSeq(s, i, i + bs - 1)>> \o FullBatchesFrom(s, bs, i + bs)

RECURSIVE BatchesFrom(_, _, _)
\* the batches of one epoch from position i on; the last one may be short
BatchesFrom(s, bs, i) ==
  IF i > Len(s) THEN <<>>
  ELSE <<SubSeq(s, i, Min(i + bs - 1, Len(s)))>> \o BatchesFrom(s, bs, i + bs)

\* SerialIterator(data, bs, repeat=False): one epoch, the last batch possibly
\* short; an empty dataset yields one empty batch.  data is the dataset in the
\* order the iterator's sampler yields it: a shuffled data set is another
\* sequence of the same set of inputs
Batches(data, bs) ==
  IF Len(data) = 0 THEN <<<<>>>> ELSE BatchesFrom(data, bs, 1)

(* --------------------------- neighbour indexes ------------------------ *)
Dist(a, b) == IF a < b THEN b - a ELSE a - b

RECURSIVE NearestOf(_, _, _, _)
\* the k candidates nearest to h by ascending distance; the order among equal
\* distances is the structure's own and is the same on every query: lower
\* position first
NearestOf(data, cand, h, k) ==
  IF k = 0 \/ cand = {} THEN <<>>
  ELSE LET best == CHOOSE j \in cand : \A i \in cand \ {j} :
                     \/ Dist(data[j], h) < Dist(data[i], h)
                     \/ Dist(data[j], h) = Dist(data[i], h) /\ j < i
       IN <<best>> \o NearestOf(data, cand \ {best}, h, k - 1)

\* KDTree.query([h], k): fails when k exceeds the number of stored points
KDQuery(tree, h, k) ==
  IF k > Len(tree.data) THEN [status |-> "ValueError", ids |-> <<>>]
  ELSE [status |-> "ok", ids |-> NearestOf(tree.data, DOMAIN tree.data, h, k)]

\* the bucket a random binary projection sends a vector to
Bucket(proj, v) == v >= proj

\* Engine.neighbours(h): the stored vectors hashed like h, nearest first, at
\* most LshK of them; possibly none
Neighbours(tree, h) ==
  NearestOf(tree.data,
            {j \in DOMAIN tree.data : Bucket(tree.proj, tree.data[j]) = Bucket(tree.proj, h)},
            h, LshK)

\* the training sets, in iteration order, handed to build
TrainSets == SeqsUpTo(TrainExamples, MaxTrain)
\* the held-out sets, in iteration order, handed to calibrate
CalibSets == SeqsUpTo(Examples, MaxCalib)
\* the batches handed to a query: at least one example
Queries == SeqsUpTo(Inputs, MaxQuery) \ {<<>>}

(* -------------------------------- build ------------------------------- *)
\* act_list[i] += [x for x in layer.data]
ExtendActs(acts, batch) ==
  [l \in 1..NumLayers |-> acts[l] \o [j \in 1..Len(batch) |-> Hidden(l, batch[j][1])]]

\* label_list.extend([int(x) for x in labels])
ExtendLabels(labels, batch) == labels \o [j \in 1..Len(batch) |-> batch[j][2]]

RECURSIVE CacheLoop(_, _, _, _)
\* the caching loop of build over the batches from b on
CacheLoop(batches, b, acts, labels) ==
  IF b > Len(batches) THEN [acts |-> acts, labels |-> labels]
  ELSE CacheLoop(batches, b + 1, ExtendActs(acts, batches[b]),
                 ExtendLabels(labels, batches[b]))

\* the index of one layer: KDTree(act_list[i]), or an Engine with every vector
\* stored under its position
MakeTree(data, proj) == [data |-> data, proj |-> IF lsh THEN proj ELSE 0]

RECURSIVE TreeLoop(_, _, _, _, _)
\* the index-building loop from layer l on; fail is the layer whose index
\* construction fails (0: none); an empty collection fails at once
TreeLoop(acts, l, trees, fail, proj) ==
  IF l > NumLayers THEN [status |-> "ok", trees |-> trees]
  ELSE IF Len(acts[l]) = 0
       THEN [status |-> IF lsh THEN "IndexError" ELSE "ValueError", trees |-> trees]
  ELSE IF l = fail
       THEN [status |-> IF lsh THEN "AssertionError" ELSE "ValueError", trees |-> trees]
  ELSE TreeLoop(acts, l + 1, Append(trees, MakeTree(acts[l], proj)), fail, proj)

Ret(op, status, xs, xs2, ys, calibrated, knn, val) ==
  [op |-> op, status |-> status, xs |-> xs, xs2 |-> xs2, ys |-> ys,
   calibrated |-> calibrated, knn |-> knn, val |-> val]

Init ==
  /\ tree_list = None
  /\ label_list = None
  /\ act_list = None
  /\ A = None
  /\ lsh \in BOOLEAN
  /\ train = <<>>
  /\ complete = FALSE
  /\ ret = Ret("init", "ok", <<>>, <<>>, <<>>, FALSE, <<>>, <<>>)

\* build(train, batch_size): bad says that the caching loop fails (the model
\* collaborator returns another number of layers, line 51), fail is the layer
\* whose index construction fails (0: none), proj the projection drawn for the
\* hash
Build(data, bs, bad, fail, proj) ==
  LET batches == Batches(data, bs)
      cache == CacheLoop(batches, 1, [l \in 1..NumLayers |-> <<>>], <<>>)
      built == TreeLoop(cache.acts, 1, <<>>, fail, proj)
  IN IF bad
     THEN /\ ret' = Ret("build", "AssertionError", <<>>, <<>>, <<>>, FALSE, <<>>, bs)
          /\ UNCHANGED <<tree_list, label_list, act_list, A, lsh, train, complete>>
     ELSE /\ act_list' = Some(cache.acts)
          /\ label_list' = Some(cache.labels)
          /\ tree_list' = Some(built.trees)
          /\ train' = data
          /\ complete' = (built.status = "ok")
          /\ ret' = Ret("build", built.status, <<>>, <<>>, <<>>, FALSE, <<>>, bs)
          /\ UNCHANGED <<A, lsh>>

\* A query assigns no field of the instance (Frame), so the calls that follow a
\* query reach exactly the instance states the same calls reach without it.
\* Every call is therefore taken from a state whose last call was build or
\* calibrate (or none): the reachable instance states, and the outcome of every
\* call in each of them, are those of arbitrary call sequences.
Settled == ret.op \in {"init", "build", "calibrate"}

BuildAction ==
  /\ Settled
  /\ \E data \in TrainSets, bs \in 1..MaxBatch, bad \in BOOLEAN,
     fail \in 0..NumLayers, proj \in 0..MaxProj :
       /\ bad => fail = 0
       /\ (proj > 0) = (lsh /\ ~bad)
       /\ Build(data, bs, bad, fail, proj)

(* ------------------------- queries and scoring ------------------------ *)
\* assert self.tree_list is not None; assert self.label_list is not None
Asserted == tree_list # None /\ label_list # None

\* neighbors = knn[0]: the exact branch replaces the list
KeepExact(acc, ids) == ids

\* the hash branch replacing the list as the exact branch does
ReplaceHash(acc, ids) == ids

\* neighbors.append(nn[1]) for every pair returned: the hash branch extends it
KeepHash(acc, ids) == acc \o ids

RECURSIVE LayerLoop(_, _, _)
\* the per-layer loop for one example, from layer l on, neighbors so far acc
LayerLoop(x, l, acc) ==
  IF l > NumLayers THEN [status |-> "ok", ids |-> acc]
  ELSE IF l > Len(Val(tree_list)) THEN [status |-> "IndexError", ids |-> <<>>]
  ELSE IF lsh
       THEN LayerLoop(x, l + 1, KeepHash(acc, Neighbours(Val(tree_list)[l], Hidden(l, x))))
  ELSE LET q == KDQuery(Val(tree_list)[l], Hidden(l, x), K)
       IN IF q.status # "ok" THEN [status |-> q.status, ids |-> <<>>]
          ELSE LayerLoop(x, l + 1, KeepExact(acc, q.ids))

\* neighbor_labels.append(self.label_list[idx]) for every neighbour
LabelsOf(ids) ==
  IF \E i \in DOMAIN ids : ids[i] > Len(Val(label_list))
  THEN [status |-> "IndexError", labels |-> <<>>]
  ELSE [status |-> "ok", labels |-> [i \in DOMAIN ids |-> Val(label_list)[ids[i]]]]

RECURSIVE CallLoop(_, _, _)
\* the per-example loop of __call__ from example i on
CallLoop(xs, i, knn) ==
  IF i > Len(xs) THEN [status |-> "ok", knn |-> knn]
  ELSE LET nb == LayerLoop(xs[i], 1, <<>>)
           lb == LabelsOf(nb.ids)
       IN IF nb.status # "ok" THEN [status |-> nb.status, knn |-> <<>>]
          ELSE IF lb.status # "ok" THEN [status |-> lb.status, knn |-> <<>>]
          ELSE CallLoop(xs, i + 1, Append(knn, lb.labels))

\* __call__(xs): (reg_logits, knn_logits)
CallOp(xs) ==
  IF ~Asserted THEN [status |-> "AssertionError", knn |-> <<>>]
  ELSE CallLoop(xs, 1, <<>>)

RECURSIVE NeighborsLoop(_, _, _)
\* the per-example loop of get_neighbors: the list is rebound for each example
NeighborsLoop(xs, i, last) ==
  IF i > Len(xs) THEN [status |-> "ok", ids |-> last]
  ELSE LET nb == LayerLoop(xs[i], 1, <<>>)
       IN IF nb.status # "ok" THEN nb ELSE NeighborsLoop(xs, i + 1, nb.ids)

\* get_neighbors(xs)
NeighborsOp(xs) ==
  IF ~Asserted THEN [status |-> "AssertionError", ids |-> <<>>]
  ELSE NeighborsLoop(xs, 1, <<>>)

\* get_neighbor_change counting the neighbours that are not shared
NeighborChangeNotIn(new_x, x) ==
  LET full == NeighborsOp(x)
      l10 == NeighborsOp(new_x)
      overlap == Cardinality({i \in DOMAIN l10.ids : l10.ids[i] \notin Range(full.ids)})
  IN IF full.status # "ok" THEN [status |-> full.status, val |-> <<>>]
     ELSE IF l10.status # "ok" THEN [status |-> l10.status, val |-> <<>>]
     ELSE IF Len(l10.ids) = 0 THEN [status |-> "ZeroDivisionError", val |-> <<>>]
     ELSE [status |-> "ok", val |-> Frac(overlap, Len(l10.ids))]

\* get_neighbor_change(new_x, x)
NeighborChangeOp(new_x, x) ==
  LET full == NeighborsOp(x)
      l10 == NeighborsOp(new_x)
      overlap == Cardinality({i \in DOMAIN l10.ids : l10.ids[i] \in Range(full.ids)})
  IN IF full.status # "ok" THEN [status |-> full.status, val |-> <<>>]
     ELSE IF l10.status # "ok" THEN [status |-> l10.status, val |-> <<>>]
     ELSE IF Len(l10.ids) = 0 THEN [status |-> "ZeroDivisionError", val |-> <<>>]
     ELSE [status |-> "ok", val |-> Frac(overlap, Len(l10.ids))]

\* tree_list[layer_id] with layer_id = -1
LastTree == Val(tree_list)[Len(Val(tree_list))]

RECURSIVE DistanceLoop(_, _, _)
\* the per-example loop of get_nearest_distance on the last layer's activation
DistanceLoop(xs, i, distances) ==
  IF i > Len(xs) THEN [status |-> "ok", val |-> distances]
  ELSE LET h == Hidden(NumLayers, xs[i])
       IN IF lsh
          THEN IF Neighbours(LastTree, h) # <<>>
               THEN [status |-> "ValueError", val |-> <<>>]
               ELSE DistanceLoop(xs, i + 1, distances)
          ELSE LET q == KDQuery(LastTree, h, 1)
               IN IF q.status # "ok" THEN [status |-> q.status, val |-> <<>>]
                  ELSE DistanceLoop(xs, i + 1,
                         Append(distances, Dist(LastTree.data[q.ids[1]], h)))

\* get_nearest_distance(xs)
NearestDistanceOp(xs) ==
  IF ~Asserted THEN [status |-> "AssertionError", val |-> <<>>]
  ELSE IF Len(Val(tree_list)) = 0 THEN [status |-> "IndexError", val |-> <<>>]
  ELSE DistanceLoop(xs, 1, <<>>)

\* the calibration test without the check for an absent reference
UseCalibratedOnly(calibrated, ref) == calibrated

\* the calibration test of predict and get_credibility
UseReference(calibrated, ref) == calibrated /\ ref # None

\* len([x for x in self._A if x >= p]) / len(self._A)
CalibrateGeq(ref, p) ==
  Frac(Cardinality({i \in DOMAIN ref : FracGeq(ref[i], p)}), Len(ref))

\* the fraction of reference values greater than p
CalibrateGreater(ref, p) ==
  Frac(Cardinality({i \in DOMAIN ref : FracLess(p, ref[i])}), Len(ref))

\* len([x for x in self._A if x < p]) / len(self._A)
CalibrateLess(ref, p) ==
  Frac(Cardinality({i \in DOMAIN ref : FracLess(ref[i], p)}), Len(ref))

\* cnt_2nd falling back on the first count
SecondOrFirstCount(cnts) == IF Len(cnts) > 1 THEN cnts[2][2] ELSE cnts[1][2]

\* cnt_2nd of predict
SecondCount(cnts) == IF Len(cnts) > 1 THEN cnts[2][2] ELSE 0

\* one pass of the scoring loop of predict over the vote list v
PredictOne(v, calibrated, ref) ==
  LET cnts == MostCommon(v)
      p_1 == Frac(cnts[1][2], Len(v))
      p_2 == Frac(SecondCount(cnts), Len(v))
  IN IF Len(cnts) = 0 THEN [status |-> "IndexError"]
     ELSE IF UseReference(calibrated, ref)
          THEN IF ref = None THEN [status |-> "TypeError"]
               ELSE IF Len(Val(ref)) = 0 THEN [status |-> "ZeroDivisionError"]
               ELSE [status |-> "ok", pred |-> cnts[1][1],
                     cred |-> CalibrateGeq(Val(ref), p_1),
                     conf |-> OneMinus(CalibrateGeq(Val(ref), p_2))]
          ELSE [status |-> "ok", pred |-> cnts[1][1], cred |-> p_1, conf |-> OneMinus(p_2)]

RECURSIVE PredictLoop(_, _, _, _, _)
\* the scoring loop of predict from example i on
PredictLoop(knn, i, calibrated, ref, out) ==
  IF i > Len(knn) THEN [status |-> "ok", val |-> out]
  ELSE LET one == PredictOne(knn[i], calibrated, ref)
       IN IF one.status # "ok" THEN [status |-> one.status, val |-> <<>>]
          ELSE PredictLoop(knn, i + 1, calibrated, ref,
                 [pred |-> Append(out.pred, one.pred),
                  cred |-> Append(out.cred, one.cred),
                  conf |-> Append(out.conf, one.conf)])

\* the scores predict derives from knn_logits
PredictScores(knn, calibrated, ref) ==
  PredictLoop(knn, 1, calibrated, ref, [pred |-> <<>>, cred |-> <<>>, conf |-> <<>>])

\* predict(xs, calibrated)
PredictOp(xs, calibrated) ==
  LET c == CallOp(xs)
      s == PredictScores(c.knn, calibrated, A)
  IN IF c.status # "ok" THEN [status |-> c.status, knn |-> <<>>, val |-> <<>>]
     ELSE IF s.status # "ok" THEN [status |-> s.status, knn |-> c.knn, val |-> <<>>]
     ELSE [status |-> "ok", knn |-> c.knn,
           val |-> [pred |-> s.val.pred, cred |-> s.val.cred, conf |-> s.val.conf,
                    reg_pred |-> [i \in DOMAIN xs |-> RegPred(xs[i])],
                    reg_conf |-> [i \in DOMAIN xs |-> RegConf(xs[i])]]]

\* the scores get_credibility derives from knn_logits for the classes ys
CredibilityScores(knn, ys, calibrated, ref) ==
  LET raw == [i \in DOMAIN knn |-> Frac(Count(knn[i], ys[i]), Len(knn[i]))]
  IN IF \E i \in DOMAIN knn : Len(knn[i]) = 0
     THEN [status |-> "ZeroDivisionError", val |-> <<>>]
     ELSE IF UseReference(calibrated, ref)
          THEN IF ref = None /\ Len(knn) > 0
               THEN [status |-> "TypeError", val |-> <<>>]
               ELSE IF Len(Val(ref)) = 0 /\ Len(knn) > 0
               THEN [status |-> "ZeroDivisionError", val |-> <<>>]
               ELSE [status |-> "ok",
                     val |-> [i \in DOMAIN knn |-> CalibrateLess(Val(ref), raw[i])]]
          ELSE [status |-> "ok", val |-> raw]

\* get_credibility(xs, ys, calibrated)
CredibilityOp(xs, ys, calibrated) ==
  LET c == CallOp(xs)
      s == CredibilityScores(c.knn, ys, calibrated, A)
  IN IF c.status # "ok" THEN [status |-> c.status, knn |-> <<>>, val |-> <<>>]
     ELSE [status |-> s.status, knn |-> c.knn, val |-> s.val]

(* ------------------------------ calibrate ----------------------------- *)
RECURSIVE AppendProportions(_, _, _, _)
\* the inner loop of calibrate over one batch from example j on
AppendProportions(knn, labels, j, ref) ==
  IF j > Len(knn) THEN [status |-> "ok", ref |-> ref]
  ELSE IF Len(knn[j]) = 0 THEN [status |-> "ZeroDivisionError", ref |-> ref]
  ELSE AppendProportions(knn, labels, j + 1,
         Append(ref, Frac(Count(knn[j], labels[j]), Len(knn[j]))))

RECURSIVE CalibrateLoop(_, _, _)
\* the batch loop of calibrate from batch b on; ref is self._A so far
CalibrateLoop(batches, b, ref) ==
  IF b > Len(batches) THEN [status |-> "ok", ref |-> ref]
  ELSE LET xs == [j \in DOMAIN batches[b] |-> batches[b][j][1]]
           labels == [j \in DOMAIN batches[b] |-> batches[b][j][2]]
           c == CallOp(xs)
           r == AppendProportions(c.knn, labels, 1, ref)
       IN IF c.status # "ok" THEN [status |-> c.status, ref |-> ref]
          ELSE IF r.status # "ok" THEN r
          ELSE CalibrateLoop(batches, b + 1, r.ref)

\* calibrate(data, batch_size): self._A is rebound to an empty list first and
\* filled in place, so a failure leaves what was appended so far; bad says
\* that a collaborator rejects the empty batch of an empty data set
Calibrate(data, bs, bad) ==
  LET r == IF bad /\ Len(data) = 0 THEN [status |-> "ValueError", ref |-> <<>>]
           ELSE CalibrateLoop(Batches(data, bs), 1, <<>>)
  IN /\ A' = Some(r.ref)
     /\ ret' = Ret("calibrate", r.status, <<>>, <<>>, <<>>, FALSE, <<>>, Len(data))
     /\ UNCHANGED <<tree_list, label_list, act_list, lsh, train, complete>>

CalibrateAction ==
  /\ Settled
  /\ \E data \in CalibSets, bs \in 1..MaxBatch, bad \in BOOLEAN :
       /\ bad => Len(data) = 0
       /\ Calibrate(data, bs, bad)

(* ------------------------------- actions ------------------------------ *)
Frame == UNCHANGED <<tree_list, label_list, act_list, A, lsh, train, complete>>

GetNeighbors(xs) ==
  LET r == NeighborsOp(xs)
  IN /\ ret' = Ret("get_neighbors", r.status, xs, <<>>, <<>>, FALSE, <<>>, r.ids)
     /\ Frame

GetNeighborsAction == Settled /\ \E xs \in Queries : GetNeighbors(xs)

GetNearestDistance(xs) ==
  LET r == NearestDistanceOp(xs)
  IN /\ ret' = Ret("get_nearest_distance", r.status, xs, <<>>, <<>>, FALSE, <<>>, r.val)
     /\ Frame

GetNearestDistanceAction == Settled /\ \E xs \in Queries : GetNearestDistance(xs)

GetNeighborChange(new_x, x) ==
  LET r == NeighborChangeOp(new_x, x)
  IN /\ ret' = Ret("get_neighbor_change", r.status, x, new_x, <<>>, FALSE, <<>>, r.val)
     /\ Frame

GetNeighborChangeAction == Settled /\ \E new_x \in Queries, x \in Queries : GetNeighborChange(new_x, x)

Call(xs) ==
  LET r == CallOp(xs)
  IN /\ ret' = Ret("call", r.status, xs, <<>>, <<>>, FALSE, r.knn, r.knn)
     /\ Frame

CallAction == Settled /\ \E xs \in Queries : Call(xs)

GetCredibility(xs, ys, calibrated) ==
  LET r == CredibilityOp(xs, ys, calibrated)
  IN /\ ret' = Ret("get_credibility", r.status, xs, <<>>, ys, calibrated, r.knn, r.val)
     /\ Frame

GetCredibilityAction ==
  Settled /\ \E xs \in Queries, calibrated \in BOOLEAN :
    \E ys \in [DOMAIN xs -> Labels] : GetCredibility(xs, ys, calibrated)

\* get_regular_confidence(xs): ys is None
GetRegularConfidence(xs) ==
  LET r == CallOp(xs)
  IN /\ ret' = Ret("get_regular_confidence", r.status, xs, <<>>, <<>>, FALSE, <<>>,
                   IF r.status = "ok" THEN [i \in DOMAIN xs |-> RegConf(xs[i])] ELSE <<>>)
     /\ Frame

GetRegularConfidenceAction == Settled /\ \E xs \in Queries : GetRegularConfidence(xs)

Predict(xs, calibrated) ==
  LET r == PredictOp(xs, calibrated)
  IN /\ ret' = Ret("predict", r.status, xs, <<>>, <<>>, calibrated, r.knn, r.val)
     /\ Frame

PredictAction == Settled /\ \E xs \in Queries, calibrated \in BOOLEAN : Predict(xs, calibrated)

Next ==
  \/ BuildAction
  \/ CalibrateAction
  \/ GetNeighborsAction
  \/ GetNearestDistanceAction
  \/ GetNeighborChangeAction
  \/ CallAction
  \/ GetCredibilityAction
  \/ GetRegularConfidenceAction
  \/ PredictAction

Spec == Init /\ [][Next]_vars

TypeOK ==
  ret.status \in {"ok", "AssertionError", "IndexError", "ValueError", "ZeroDivisionError",
                  "TypeError"}

(* ----------------------- scoring specification ------------------------ *)
\* The scoring loops of predict and get_credibility as functions of the vote
\* list of one example and of the calibration reference: the initial states
\* draw both, the actions apply the loops.
VoteLists == SeqsUpTo(Labels, MaxVotes)
ScoreRefs == {None} \cup {Some(r) : r \in SeqsUpTo({Frac(0, 1), Frac(1, 2), Frac(1, 1)}, 1)}

InitScore ==
  /\ tree_list = None
  /\ label_list = None
  /\ act_list = None
  /\ A \in ScoreRefs
  /\ lsh = FALSE
  /\ train = <<>>
  /\ complete = FALSE
  /\ \E v \in VoteLists : ret = Ret("init", "ok", <<>>, <<>>, <<>>, FALSE, <<v>>, <<>>)

ScorePredict(calibrated) ==
  LET s == PredictScores(ret.knn, calibrated, A)
  IN /\ ret.op = "init"
     /\ ret' = Ret("predict", s.status, <<>>, <<>>, <<>>, calibrated, ret.knn, s.val)
     /\ Frame

ScorePredictAction == \E calibrated \in BOOLEAN : ScorePredict(calibrated)

ScoreCredibility(ys, calibrated) ==
  LET s == CredibilityScores(ret.knn, ys, calibrated, A)
  IN /\ ret.op = "init"
     /\ ret' = Ret("get_credibility", s.status, <<>>, <<>>, ys, calibrated, ret.knn, s.val)
     /\ Frame

ScoreCredibilityAction ==
  \E y \in Labels, calibrated \in BOOLEAN : ScoreCredibility(<<y>>, calibrated)

NextScore == ScorePredictAction \/ ScoreCredibilityAction

SpecScore == InitScore /\ [][NextScore]_vars

(* ------------------------------- claims ------------------------------- *)
QueryOps == {"get_neighbors", "get_nearest_distance", "get_neighbor_change", "call",
             "get_credibility", "get_regular_confidence", "predict"}

ReadOps == {"predict", "get_credibility", "call", "get_neighbors", "get_nearest_distance"}

SingleLabel(v) == Len(v) > 0 /\ \A i, j \in DOMAIN v : v[i] = v[j]

\* the largest count among the labels other than pred, 0 when there is none
RunnerUp(v, pred) ==
  LET others == {Count(v, c) : c \in Range(v) \ {pred}}
  IN IF others = {} THEN 0 ELSE CHOOSE m \in others : \A n \in others : m >= n

MaxDen == IF K > NumLayers * LshK THEN K ELSE NumLayers * LshK
\* the raw proportions a vote list can give
Proportions ==
  {Frac(p[1], p[2]) : p \in {q \in (0..MaxDen) \X (1..MaxDen) : q[1] <= q[2]}}

\* the neighbours the last monitored layer's index returns for input x
LastLayerOnly(x) ==
  IF lsh THEN Neighbours(Val(tree_list)[NumLayers], Hidden(NumLayers, x))
  ELSE NearestOf(Val(tree_list)[NumLayers].data, DOMAIN Val(tree_list)[NumLayers].data,
                 Hidden(NumLayers, x), K)

RECURSIVE AllLayers(_, _)
\* the neighbours of every layer's hash index from layer l on, in layer order
AllLayers(x, l) ==
  IF l > NumLayers THEN <<>>
  ELSE Neighbours(Val(tree_list)[l], Hidden(l, x)) \o AllLayers(x, l + 1)

LabelsAt(ids) == [i \in DOMAIN ids |-> Val(label_list)[ids[i]]]

\* C1: a query or prediction call, or a calibration over at least one example,
\* made while no build has run to completion on the current state fails and
\* returns no result (any exception is counted as the precondition failure).
C1_FailsWithoutCompleteBuild ==
  (~complete /\ (ret.op \in QueryOps \/ (ret.op = "calibrate" /\ ret.val > 0)))
    => ret.status # "ok"

\* C2: with an empty calibration reference, calibrated scoring through predict
\* and get_credibility does not divide by zero.
C2_NoDivisionByZero ==
  (ret.op \in {"predict", "get_credibility"} /\ ret.calibrated /\ A = Some(<<>>))
    => ret.status # "ZeroDivisionError"

\* C3: every value of the calibration reference lies in [0,1], and so does
\* every credibility and confidence predict returns and every credibility
\* get_credibility returns, calibrated or not.
C3_ScoresInUnitInterval ==
  /\ A # None => \A i \in DOMAIN Val(A) : InUnit(Val(A)[i])
  /\ (ret.op = "predict" /\ ret.status = "ok") =>
       \A i \in DOMAIN ret.val.cred : InUnit(ret.val.cred[i]) /\ InUnit(ret.val.conf[i])
  /\ (ret.op = "get_credibility" /\ ret.status = "ok") =>
       \A i \in DOMAIN ret.val : InUnit(ret.val[i])

C3_Witness ==
  /\ ret.op = "predict" /\ ret.status = "ok" /\ ret.calibrated
  /\ A # None /\ Len(Val(A)) > 0
  /\ ret.val.conf[1] = One

\* C4: after a completed build every layer's activation collection and the
\* label table hold one entry per training example, and entry j of every layer
\* and label j belong to training example j in iteration order, for any batch
\* size.
C4_ParallelCollections ==
  complete =>
    /\ Len(Val(label_list)) = Len(train)
    /\ \A j \in DOMAIN train : Val(label_list)[j] = train[j][2]
    /\ \A l \in 1..NumLayers :
         /\ Len(Val(act_list)[l]) = Len(train)
         /\ \A j \in DOMAIN train : Val(act_list)[l][j] = Hidden(l, train[j][1])

C4_Witness ==
  complete /\ ret.op = "build" /\ ret.val > 1 /\ Len(train) % ret.val # 0

\* C5: for a non-empty vote list predict with calibrated=False succeeds and
\* returns a label of maximal count, credibility = its count / total and
\* confidence = 1 - runner-up count / total; {A:5, B:3} gives A, 5/8 and 5/8.
C5_RawScores ==
  (ret.op = "predict" /\ ~ret.calibrated /\ \A i \in DOMAIN ret.knn : Len(ret.knn[i]) > 0) =>
    /\ ret.status = "ok"
    /\ \A i \in DOMAIN ret.knn :
         LET v == ret.knn[i]
             pred == ret.val.pred[i]
             cred == ret.val.cred[i]
             conf == ret.val.conf[i]
         IN /\ pred \in Range(v)
            /\ \A c \in Range(v) : Count(v, pred) >= Count(v, c)
            /\ cred[1] * Len(v) = Count(v, pred) * cred[2]
            /\ conf[1] * Len(v) = (Len(v) - RunnerUp(v, pred)) * conf[2]
            /\ (Len(v) = 8 /\ Count(v, 0) = 5 /\ Count(v, 1) = 3) =>
                 (pred = 0 /\ cred = <<5, 8>> /\ conf = <<5, 8>>)

C5_Witness ==
  /\ ret.op = "predict" /\ ~ret.calibrated /\ ret.status = "ok"
  /\ Len(ret.knn[1]) = 8 /\ Count(ret.knn[1], 0) = 5 /\ Count(ret.knn[1], 1) = 3
  /\ ret.val.cred[1] = <<5, 8>>

\* C6 as stated: with one distinct label in the votes predict returns
\* confidence 1, with calibrated=False and with calibrated=True over a
\* non-empty reference.
C6_SingleLabelConfidenceOne ==
  (/\ ret.op = "predict" /\ ret.status = "ok"
   /\ (~ret.calibrated \/ (A # None /\ Len(Val(A)) > 0))) =>
    \A i \in DOMAIN ret.knn : SingleLabel(ret.knn[i]) => ret.val.conf[i] = One

\* C6 amended: with one distinct label in the votes the second-place count is
\* 0; predict returns confidence 1 when the reference is not used and
\* confidence 0 with calibrated=True over a non-empty reference (every
\* reference value is >= 0).
C6_SingleLabelConfidence ==
  (ret.op = "predict" /\ ret.status = "ok") =>
    \A i \in DOMAIN ret.knn : SingleLabel(ret.knn[i]) =>
      ret.val.conf[i] = IF ret.calibrated /\ A # None THEN Zero ELSE One

C6_Witness ==
  /\ ret.op = "predict" /\ ret.status = "ok" /\ ret.calibrated
  /\ A # None /\ Len(Val(A)) > 0
  /\ SingleLabel(ret.knn[1]) /\ ret.val.conf[1] = Zero

\* C7: for a fixed non-empty reference the calibrated credibility of
\* get_credibility is monotonic in the raw proportion: p <= q implies
\* calibrated(p) <= calibrated(q), for the value returned and for every
\* proportion.
C7_CalibratedMonotonic ==
  (A # None /\ Len(Val(A)) > 0) =>
    /\ \A p, q \in Proportions :
         FracLeq(p, q) => FracLeq(CalibrateLess(Val(A), p), CalibrateLess(Val(A), q))
    /\ (ret.op = "get_credibility" /\ ret.calibrated /\ ret.status = "ok") =>
         \A i \in DOMAIN ret.val : \A q \in Proportions :
           LET p == Frac(Count(ret.knn[i], ret.ys[i]), Len(ret.knn[i]))
           IN /\ FracLeq(p, q) => FracLeq(ret.val[i], CalibrateLess(Val(A), q))
              /\ FracLeq(q, p) => FracLeq(CalibrateLess(Val(A), q), ret.val[i])

C7_Witness ==
  /\ ret.op = "get_credibility" /\ ret.calibrated /\ ret.status = "ok"
  /\ A = Some(<<Frac(1, 2)>>)
  /\ ret.val[1] = One

C9_LastLayerOnly ==
  (complete /\ ret.status = "ok") =>
    /\ ret.op = "get_neighbors" => ret.val = LastLayerOnly(ret.xs[Len(ret.xs)])
    /\ ret.op = "call" =>
         \A i \in DOMAIN ret.xs : ret.knn[i] = LabelsAt(LastLayerOnly(ret.xs[i]))

\* C9 amended: with the exact index the neighbour list holds only the last
\* monitored layer's neighbours; with the hash index it is the concatenation
\* of every layer's neighbours, so every layer contributes to the vote.
C9_LayerContributions ==
  (complete /\ ret.status = "ok") =>
    /\ ret.op = "get_neighbors" =>
         ret.val = IF lsh THEN AllLayers(ret.xs[Len(ret.xs)], 1)
                   ELSE LastLayerOnly(ret.xs[Len(ret.xs)])
    /\ ret.op = "call" =>
         \A i \in DOMAIN ret.xs :
           ret.knn[i] = LabelsAt(IF lsh THEN AllLayers(ret.xs[i], 1)
                                 ELSE LastLayerOnly(ret.xs[i]))

C9_Witness ==
  /\ complete /\ lsh /\ ret.op = "get_neighbors" /\ ret.status = "ok"
  /\ Len(ret.val) > Len(LastLayerOnly(ret.xs[Len(ret.xs)]))

C10_SameAsUncalibrated ==
  (complete /\ A = None /\ ret.calibrated) =>
    /\ ret.op = "predict" =>
         /\ ret.status = PredictOp(ret.xs, FALSE).status
         /\ ret.val = PredictOp(ret.xs, FALSE).val
         /\ (~lsh /\ Len(train) >= K) => ret.status = "ok"
    /\ ret.op = "get_credibility" =>
         /\ ret.status = CredibilityOp(ret.xs, ret.ys, FALSE).status
         /\ ret.val = CredibilityOp(ret.xs, ret.ys, FALSE).val
         /\ (~lsh /\ Len(train) >= K) => ret.status = "ok"

C10_ReadOnly ==
  ret'.op \in ReadOps =>
    (label_list' = label_list /\ tree_list' = tree_list /\ A' = A)

====
